---- MODULE Spec2Model ----
(***************************************************************************)
(* A model of teslacam_viewer.py: the front-clip segmenter of              *)
(* TeslaCamViewer.refresh_file_list, the concatenated stream               *)
(* MultiVideoCapture, the viewer's handlers over its tracks, and the       *)
(* export thread of export_video_file.                                     *)
(*                                                                         *)
(* Timestamps are whole seconds (the file names carry no finer unit).      *)
(* A video file is the pair (ok, n): whether cv2.VideoCapture opens it and *)
(* the frame count it reports.  cv2.VideoCapture is modelled with the      *)
(* FFMPEG backend's behaviour: read() yields a frame while pos < n and     *)
(* then advances pos by one; set(CAP_PROP_POS_FRAMES, v) moves pos to      *)
(* min(v, n); a capture that failed to open reads nothing and ignores set. *)
(* Indices of clips are 0-based as in the source; sequences are 1-based.   *)
(***************************************************************************)
EXTENDS Integers, Sequences, FiniteSets, TLC

\* ---------------------------------------------------------------- bounds
MaxFront == 3        \* front clips of the folder being segmented
MaxMore == 2         \* front clips of the second folder
MaxClips == 3        \* clips of one MultiVideoCapture
MaxFrames == 2       \* frames of one clip (besides the [10, 7, 5] example)
MaxEventClips == 2   \* front clips of the event the viewer loads
ViewFrames == 2      \* frames of each clip of that event that opens
MaxPending == 1      \* play_video callbacks scheduled at one time
SeekFar == 100       \* a seek target far beyond every total
MaxChains == 2       \* play_video callbacks scheduled at one time, timed viewer
TimeStep == 5        \* milliseconds by which the clock moves on
MaxElapsed == 60     \* the clock is followed up to this many milliseconds
MaxStamp == 2        \* events per category folder on the card, event list
MaxOnCard == 2       \* events on the card in all, event list

\* ------------------------------------------------------ program constants
GapSeconds == 900    \* refresh_file_list: "<= 900  # 15 minutes"
None == -1           \* parse_timestamp's "return None"
DatetimeMin == -2    \* datetime.min, the sort key of a clip without timestamp
BaseInterval == 30   \* play_video: "0.030 / self.playback_speed", in milliseconds

VARIABLES
    front_files,     \* segmenter: the folder's "*-front.mp4" files, glob order
    events,          \* segmenter: the groups refresh_file_list built
    refreshed,       \* segmenter: refresh_file_list has run
    more_files,      \* segmenter: the front files of a second folder, glob order
    all_events,      \* segmenter: self.all_events
    selected,        \* segmenter: index of the event last selected, 0 for none
    path_lists,      \* segmenter: per camera, the files collected for that event
    trk,             \* track: one MultiVideoCapture
    hist,            \* track: the last call on trk and what it returned
    event,           \* viewer: the selected event's clips, as they are on disk
    video_captures,  \* viewer: self.video_captures, camera -> MultiVideoCapture
    is_playing,      \* viewer: self.is_playing
    pending,         \* viewer: play_video callbacks scheduled by root.after
    disp,            \* viewer: the composite on display, progress bar, time label
    camera_clip_lists, \* viewer: the per-camera lists of the last load
    error_shown,     \* viewer: the last load ended in the error box
    last,            \* viewer: the last handler, its input, the set() calls it made
    decoders,        \* viewer: the cv2 captures its tracks opened and did not release
    since_last,      \* clock: milliseconds since self.last_frame_time, capped
    playback_speed,  \* clock: self.playback_speed, in tenths
    tick_frames,     \* clock: show_merged_frame calls of the last play_video run
    teslacam_path,   \* list: whether self.teslacam_path is set
    disk_events,     \* list: first-clip paths of the events on the card
    folder_type,     \* list: self.folder_type, the category button chosen
    search_text,     \* list: self.search_var
    video_files,     \* list: self.video_files, the clips of each row shown
    metadata,        \* list: self.metadata
    metadata_file,   \* list: content of teslacam_metadata.json
    saved,           \* list: per event the tags and notes last saved for it
    exp_pc,          \* export: "idle", "loop" (in the while loop), "done", "failed"
    captures,        \* export: export_video_file's captures
    ref_total_frames,    \* export: total_frames of export_video_file, the count of front_cap
    out_open,        \* export: the cv2.VideoWriter out is open
    frame_count,     \* export: its frame_count, the frames written
    progress         \* export: the update_progress reports, oldest first

segVars == <<front_files, events, refreshed, more_files, all_events, selected, path_lists>>
trackVars == <<trk, hist>>
viewVars == <<event, video_captures, is_playing, pending, disp,
              camera_clip_lists, error_shown, last, decoders>>
exportVars == <<exp_pc, captures, ref_total_frames, out_open, frame_count, progress>>
clockVars == <<since_last, playback_speed, tick_frames>>
listVars == <<teslacam_path, disk_events, folder_type, search_text, video_files,
              metadata, metadata_file, saved>>
vars == <<segVars, trackVars, viewVars, exportVars, clockVars, listVars>>

Min(a, b) == IF a < b THEN a ELSE b
Max(a, b) == IF a > b THEN a ELSE b

\* ============================================================ segmenter

\* The seconds values the modelled file names denote: gaps of 0, 1, 899,
\* 900, 901 and more occur among them.
TimeSet == {0, 1, 900, 901, 1801, 1802}

\* A front file name "<stamp>-front.mp4": parts is the number of
\* "_"-separated fields of <stamp>, secs the instant its fields denote, or
\* None when strptime rejects them.
FrontNames ==
    {[parts |-> 2, secs |-> t] : t \in TimeSet}
        \cup {[parts |-> 1, secs |-> 0], [parts |-> 2, secs |-> None]}

\* parse_timestamp: a datetime only for exactly two fields that strptime
\* accepts; every other name gives None.
parse_timestamp(name) ==
    IF name.parts = 2 /\ name.secs # None THEN name.secs ELSE None

\* The (clip, timestamp) pairs refresh_file_list collects for one folder.
Collect(files) ==
    [i \in 1..Len(files) |->
        [clip |-> i, name |-> files[i], ts |-> parse_timestamp(files[i])]]

\* The key of clips.sort(key=lambda x: x[1] if x[1] else datetime.min).
SortKey(c) == IF c.ts # None THEN c.ts ELSE DatetimeMin

\* list.sort is stable: an element goes after every element whose key is
\* not greater.
RECURSIVE InsertByKey(_, _)
InsertByKey(s, c) ==
    IF s = <<>> THEN <<c>>
    ELSE IF SortKey(s[Len(s)]) <= SortKey(c) THEN Append(s, c)
    ELSE Append(InsertByKey(SubSeq(s, 1, Len(s) - 1), c), s[Len(s)])

RECURSIVE SortClips(_)
SortClips(s) ==
    IF s = <<>> THEN <<>>
    ELSE InsertByKey(SortClips(SubSeq(s, 1, Len(s) - 1)), s[Len(s)])

\* A faulty variant of WithinGap: the comparison made strict.
WithinGapStrict(last_timestamp, timestamp) == timestamp - last_timestamp < GapSeconds

\* "if (timestamp - last_timestamp).total_seconds() <= 900"
WithinGap(last_timestamp, timestamp) == timestamp - last_timestamp <= GapSeconds

\* A faulty variant of GroupLoop: a clip without timestamp is not skipped
\* but closed into an event of its own.
RECURSIVE GroupLoopKeep(_, _, _, _)
GroupLoopKeep(clips, i, done, current_event) ==
    IF i > Len(clips)
    THEN IF current_event # <<>> THEN Append(done, current_event) ELSE done
    ELSE LET c == clips[i] IN
         IF c.ts = None THEN GroupLoopKeep(clips, i + 1, Append(done, <<c>>), current_event)
         ELSE IF current_event = <<>> THEN GroupLoopKeep(clips, i + 1, done, <<c>>)
         ELSE IF WithinGap(current_event[Len(current_event)].ts, c.ts)
              THEN GroupLoopKeep(clips, i + 1, done, Append(current_event, c))
              ELSE GroupLoopKeep(clips, i + 1, Append(done, current_event), <<c>>)

\* The grouping loop over the sorted clips: done are the closed events,
\* current_event the open one.
RECURSIVE GroupLoop(_, _, _, _)
GroupLoop(clips, i, done, current_event) ==
    IF i > Len(clips)
    THEN IF current_event # <<>> THEN Append(done, current_event) ELSE done
    ELSE LET c == clips[i] IN
         IF c.ts = None THEN GroupLoop(clips, i + 1, done, current_event)
         ELSE IF current_event = <<>> THEN GroupLoop(clips, i + 1, done, <<c>>)
         ELSE IF WithinGap(current_event[Len(current_event)].ts, c.ts)
              THEN GroupLoop(clips, i + 1, done, Append(current_event, c))
              ELSE GroupLoop(clips, i + 1, Append(done, current_event), <<c>>)

GroupClips(files) == GroupLoop(SortClips(Collect(files)), 1, <<>>, <<>>)

RECURSIVE SeqsUpTo(_, _)
SeqsUpTo(S, n) ==
    IF n = 0 THEN {<<>>}
    ELSE LET shorter == SeqsUpTo(S, n - 1) IN
         shorter \cup {Append(s, x) : s \in {q \in shorter : Len(q) = n - 1}, x \in S}

\* ================================================================ track

\* A video file: ok is whether cv2.VideoCapture opens it, n its frame count.
BadFile == [ok |-> FALSE, n |-> 0]
OkFile(n) == [ok |-> TRUE, n |-> n]
Files == {BadFile} \cup {OkFile(n) : n \in 0..MaxFrames}
ExampleClips == <<OkFile(10), OkFile(7), OkFile(5)>>
ClipLists == (SeqsUpTo(Files, MaxClips) \ {<<>>}) \cup {ExampleClips}

\* cv2.VideoCapture(path)
VideoCapture(f) ==
    [some |-> TRUE, opened |-> f.ok, n |-> IF f.ok THEN f.n ELSE 0, pos |-> 0]
\* self.current_capture = None
NoCapture == [some |-> FALSE, opened |-> FALSE, n |-> 0, pos |-> 0]

\* cap.read(): (ret, the local index of the frame, the capture afterwards)
CapRead(c) ==
    IF c.opened /\ c.pos < c.n
    THEN [ret |-> TRUE, local |-> c.pos, cap |-> [c EXCEPT !.pos = c.pos + 1]]
    ELSE [ret |-> FALSE, local |-> -1, cap |-> c]

\* cap.set(cv2.CAP_PROP_POS_FRAMES, v)
CapSetPos(c, v) ==
    IF c.opened THEN [c EXCEPT !.pos = Min(Max(v, 0), c.n)] ELSE c

\* cap.get(cv2.CAP_PROP_POS_FRAMES)
CapGetPos(c) == IF c.opened THEN c.pos ELSE 0

\* A faulty variant of InitScan: the offset is appended after the clip's frames are
\* added.
RECURSIVE InitScanShift(_, _, _, _, _)
InitScanShift(paths, i, current_offset, total, offsets) ==
    IF i > Len(paths) THEN [total_frames |-> total, frame_offsets |-> offsets]
    ELSE LET cap == VideoCapture(paths[i])
             total2 == IF cap.opened THEN total + cap.n ELSE total
         IN InitScanShift(paths, i + 1, total2, total2, Append(offsets, total2))

\* The probing loop of __init__.
RECURSIVE InitScan(_, _, _, _, _)
InitScan(paths, i, current_offset, total, offsets) ==
    IF i > Len(paths) THEN [total_frames |-> total, frame_offsets |-> offsets]
    ELSE LET cap == VideoCapture(paths[i])
             total2 == IF cap.opened THEN total + cap.n ELSE total
         IN InitScan(paths, i + 1, total2, total2, Append(offsets, current_offset))

\* MultiVideoCapture.__init__
MultiVideoCapture(video_paths) ==
    LET scan == InitScan(video_paths, 1, 0, 0, <<>>) IN
    [video_paths |-> video_paths,
     current_clip_index |-> 0,
     current_capture |->
        IF video_paths # <<>> THEN VideoCapture(video_paths[1]) ELSE NoCapture,
     total_frames |-> scan.total_frames,
     frame_offsets |-> scan.frame_offsets]

\* MultiVideoCapture.isOpened
isOpened(t) == t.current_capture.some /\ t.current_capture.opened

\* A faulty variant of read: on moving to the next clip current_clip_index
\* is not advanced.
read_same_index(t) ==
    IF ~(t.current_capture.some /\ t.current_capture.opened)
    THEN [ret |-> FALSE, clip |-> -1, local |-> -1, trk |-> t]
    ELSE LET r1 == CapRead(t.current_capture) IN
         IF ~r1.ret /\ t.current_clip_index < Len(t.video_paths) - 1
         THEN LET idx == t.current_clip_index + 1
                  r2 == CapRead(VideoCapture(t.video_paths[idx + 1]))
              IN [ret |-> r2.ret,
                  clip |-> IF r2.ret THEN idx ELSE -1,
                  local |-> r2.local,
                  trk |-> [t EXCEPT !.current_capture = r2.cap]]
         ELSE [ret |-> r1.ret,
               clip |-> IF r1.ret THEN t.current_clip_index ELSE -1,
               local |-> r1.local,
               trk |-> [t EXCEPT !.current_capture = r1.cap]]

\* MultiVideoCapture.read: (ret, the frame as clip index and local index,
\* the track afterwards)
read(t) ==
    IF ~(t.current_capture.some /\ t.current_capture.opened)
    THEN [ret |-> FALSE, clip |-> -1, local |-> -1, trk |-> t]
    ELSE LET r1 == CapRead(t.current_capture) IN
         IF ~r1.ret /\ t.current_clip_index < Len(t.video_paths) - 1
         THEN LET idx == t.current_clip_index + 1
                  r2 == CapRead(VideoCapture(t.video_paths[idx + 1]))
              IN [ret |-> r2.ret,
                  clip |-> IF r2.ret THEN idx ELSE -1,
                  local |-> r2.local,
                  trk |-> [t EXCEPT !.current_clip_index = idx,
                                    !.current_capture = r2.cap]]
         ELSE [ret |-> r1.ret,
               clip |-> IF r1.ret THEN t.current_clip_index ELSE -1,
               local |-> r1.local,
               trk |-> [t EXCEPT !.current_capture = r1.cap]]

\* MultiVideoCapture.get(cv2.CAP_PROP_FRAME_COUNT)
get_frame_count(t) == t.total_frames

\* MultiVideoCapture.get(cv2.CAP_PROP_POS_FRAMES)
get_pos_frames(t) ==
    IF t.current_capture.some /\ t.current_capture.opened
    THEN t.frame_offsets[t.current_clip_index + 1] + CapGetPos(t.current_capture)
    ELSE 0

\* A faulty variant of set_scan: "<=" for "<".
RECURSIVE set_scan_le(_, _, _)
set_scan_le(t, target_frame, i) ==
    IF i = Len(t.frame_offsets) - 1 \/ target_frame <= t.frame_offsets[i + 2]
    THEN i
    ELSE set_scan_le(t, target_frame, i + 1)

\* The scan of set(): the first i that is the last clip or whose successor's
\* offset is beyond the target.
RECURSIVE set_scan(_, _, _)
set_scan(t, target_frame, i) ==
    IF i = Len(t.frame_offsets) - 1 \/ target_frame < t.frame_offsets[i + 2]
    THEN i
    ELSE set_scan(t, target_frame, i + 1)

\* "if i != self.current_clip_index": set() replaces the open decoder.
set_switches(t, target_frame) ==
    t.frame_offsets # <<>> /\ set_scan(t, target_frame, 0) # t.current_clip_index

\* A faulty variant of set_pos_frames: the clip's offset is not subtracted.
set_pos_frames_global(t, target_frame) ==
    IF t.frame_offsets = <<>> THEN t
    ELSE LET i == set_scan(t, target_frame, 0)
             sw == IF set_switches(t, target_frame)
                   THEN [t EXCEPT !.current_clip_index = i,
                                  !.current_capture = VideoCapture(t.video_paths[i + 1])]
                   ELSE t
         IN IF sw.current_capture.some /\ sw.current_capture.opened
            THEN [sw EXCEPT !.current_capture =
                     CapSetPos(sw.current_capture, target_frame)]
            ELSE sw

\* MultiVideoCapture.set(cv2.CAP_PROP_POS_FRAMES, value)
set_pos_frames(t, target_frame) ==
    IF t.frame_offsets = <<>> THEN t
    ELSE LET i == set_scan(t, target_frame, 0)
             sw == IF set_switches(t, target_frame)
                   THEN [t EXCEPT !.current_clip_index = i,
                                  !.current_capture = VideoCapture(t.video_paths[i + 1])]
                   ELSE t
         IN IF sw.current_capture.some /\ sw.current_capture.opened
            THEN [sw EXCEPT !.current_capture =
                     CapSetPos(sw.current_capture, target_frame - t.frame_offsets[i + 1])]
            ELSE sw

\* MultiVideoCapture.release
release(t) ==
    IF t.current_capture.some THEN [t EXCEPT !.current_capture = NoCapture] ELSE t

\* ---- the cv2 captures a call opens and releases
\* An object of cv2.VideoCapture that holds an open decoder.
IsOpenCapture(c) == c.some /\ c.opened

\* __init__: every probe that opened is released again (lines 34-38); the
\* first clip's capture stays.
init_opens(video_paths) ==
    Cardinality({i \in 1..Len(video_paths) : VideoCapture(video_paths[i]).opened})
        + (IF video_paths # <<>> /\ VideoCapture(video_paths[1]).opened THEN 1 ELSE 0)
init_releases(video_paths) ==
    Cardinality({i \in 1..Len(video_paths) : VideoCapture(video_paths[i]).opened})

\* read() moves on to the next clip.
read_switches(t) ==
    /\ IsOpenCapture(t.current_capture)
    /\ ~CapRead(t.current_capture).ret
    /\ t.current_clip_index < Len(t.video_paths) - 1

\* A faulty variant of read_releases: the old capture is not released.
read_releases_none(t) == 0

\* read(): "self.current_capture.release()" before the next clip is opened.
read_releases(t) == IF read_switches(t) THEN 1 ELSE 0
read_opens(t) ==
    IF read_switches(t) /\ VideoCapture(t.video_paths[t.current_clip_index + 2]).opened
    THEN 1 ELSE 0

\* set(): "if self.current_capture: self.current_capture.release()" on a
\* switch, then the target clip is opened.
set_releases(t, target_frame) ==
    IF set_switches(t, target_frame) /\ IsOpenCapture(t.current_capture) THEN 1 ELSE 0
set_opens(t, target_frame) ==
    IF set_switches(t, target_frame)
       /\ VideoCapture(t.video_paths[set_scan(t, target_frame, 0) + 1]).opened
    THEN 1 ELSE 0

\* release()
release_releases(t) == IF IsOpenCapture(t.current_capture) THEN 1 ELSE 0

\* The sum of f over the cameras S.
RECURSIVE SumOver(_, _)
SumOver(f, S) ==
    IF S = {} THEN 0
    ELSE LET c == CHOOSE c \in S : TRUE IN f[c] + SumOver(f, S \ {c})

\* The captures opened less those released by a read of every track, by a
\* set(CAP_PROP_POS_FRAMES, k) on the tracks S, by a release of every track.
ReadNet(caps) ==
    SumOver([c \in DOMAIN caps |-> read_opens(caps[c]) - read_releases(caps[c])],
            DOMAIN caps)
SetNet(caps, S, k) ==
    SumOver([c \in S |-> set_opens(caps[c], k) - set_releases(caps[c], k)], S)
ReleaseNet(caps) ==
    SumOver([c \in DOMAIN caps |-> 0 - release_releases(caps[c])], DOMAIN caps)

\* =============================================================== viewer

Cameras == {"front", "left", "right", "back"}

\* A file of the event on disk: exists is Path.exists().
Absent == [exists |-> FALSE, ok |-> FALSE, n |-> 0]
OnDisk(f) == [exists |-> TRUE, ok |-> f.ok, n |-> f.n]

\* One timestamp of an event: its front clip (found by the glob, so it
\* exists) and the three sibling files, each of which may be missing.
EventClips ==
    [front : {OnDisk(BadFile), OnDisk(OkFile(ViewFrames))},
     left : {Absent, OnDisk(OkFile(ViewFrames))},
     right : {Absent, OnDisk(OkFile(ViewFrames))},
     back : {Absent, OnDisk(OkFile(ViewFrames))}]

\* The events the viewer is given: one to MaxEventClips timestamps; the two
\* repeater cameras' files are there for every timestamp or for none.
EventsOfLen(n) ==
    {ev \in [1..n -> EventClips] :
        \A i \in 1..n : ev[i].left = ev[1].left /\ ev[i].right = ev[1].right}
EventSet == UNION {EventsOfLen(n) : n \in 1..MaxEventClips}

\* The slider positions (0..100) the seek handler is given.  For these the
\* floating-point product (value / 100) * total and the exact one truncate
\* to the same integer.
SliderValues == {0, 30, 50, 100}

\* get_camera_clips: the cameras whose file for this timestamp exists.
get_camera_clips(front_clip) == {c \in Cameras : front_clip[c].exists}

\* The collecting loop of load_merged_video: per camera, the existing files
\* in the order of the front clips.
RECURSIVE CollectLists(_, _, _)
CollectLists(front_video_clips, i, lists) ==
    IF i > Len(front_video_clips) THEN lists
    ELSE LET front_clip == front_video_clips[i]
             camera_clips == get_camera_clips(front_clip)
         IN CollectLists(front_video_clips, i + 1,
                [c \in Cameras |->
                    IF c \in camera_clips
                    THEN Append(lists[c], [ok |-> front_clip[c].ok, n |-> front_clip[c].n])
                    ELSE lists[c]])

EmptyLists == [c \in Cameras |-> <<>>]

\* ---- the event list of refresh_file_list
\* The front file names of the second folder.
MoreNames == {[parts |-> 2, secs |-> t] : t \in {1, 900, 1802}}

\* "Create event entries": one entry per group, its timestamp the first
\* clip's.
EventEntries(groups, folder) ==
    [k \in 1..Len(groups) |->
        [folder |-> folder, clips |-> groups[k], timestamp |-> groups[k][1].ts]]

\* A faulty variant of InsertEvent: ascending, as sort without reverse.
RECURSIVE InsertEventAscending(_, _)
InsertEventAscending(s, e) ==
    IF s = <<>> THEN <<e>>
    ELSE IF s[Len(s)].timestamp <= e.timestamp THEN Append(s, e)
    ELSE Append(InsertEventAscending(SubSeq(s, 1, Len(s) - 1), e), s[Len(s)])

\* all_events.sort(key=lambda x: x['timestamp'], reverse=True) is stable:
\* an entry goes after every entry whose timestamp is not smaller.
RECURSIVE InsertEvent(_, _)
InsertEvent(s, e) ==
    IF s = <<>> THEN <<e>>
    ELSE IF s[Len(s)].timestamp >= e.timestamp THEN Append(s, e)
    ELSE Append(InsertEvent(SubSeq(s, 1, Len(s) - 1), e), s[Len(s)])

RECURSIVE SortEvents(_)
SortEvents(s) ==
    IF s = <<>> THEN <<>>
    ELSE InsertEvent(SortEvents(SubSeq(s, 1, Len(s) - 1)), s[Len(s)])

\* The cameras whose file of one timestamp exists: all four, all but the
\* back one, or the front one alone.
DiskPatterns == {Cameras, Cameras \ {"back"}, {"front"}}

\* A faulty variant of CollectPaths: a file is put in front of its list.
RECURSIVE CollectPathsFront(_, _, _, _)
CollectPathsFront(front_video_clips, disk, i, lists) ==
    IF i > Len(front_video_clips) THEN lists
    ELSE CollectPathsFront(front_video_clips, disk, i + 1,
            [c \in Cameras |->
                IF c \in disk[i]
                THEN <<[place |-> i, ts |-> front_video_clips[i].ts]>> \o lists[c]
                ELSE lists[c]])

\* The collecting loop of load_merged_video over file names: per camera, the
\* existing files in the order of the front clips, each with its place in
\* the event and its timestamp.
RECURSIVE CollectPaths(_, _, _, _)
CollectPaths(front_video_clips, disk, i, lists) ==
    IF i > Len(front_video_clips) THEN lists
    ELSE CollectPaths(front_video_clips, disk, i + 1,
            [c \in Cameras |->
                IF c \in disk[i]
                THEN Append(lists[c], [place |-> i, ts |-> front_video_clips[i].ts])
                ELSE lists[c]])

\* A faulty variant of OpenTracks: the track of every non-empty list is kept.
OpenTracksUnchecked(lists) ==
    [c \in {c \in Cameras : lists[c] # <<>>} |-> MultiVideoCapture(lists[c])]

\* "Create MultiVideoCapture for each camera that has clips"
OpenTracks(lists) ==
    [c \in {c \in Cameras : lists[c] # <<>> /\ isOpened(MultiVideoCapture(lists[c]))}
        |-> MultiVideoCapture(lists[c])]

\* What the window shows: per camera the global number of the frame in its
\* cell (-1 for the "(N/A)" placeholder), the position and total behind the
\* progress bar and behind the time label (-1: never set).
NoDisplay ==
    [shown |-> [c \in Cameras |-> -1],
     progress |-> [pos |-> -1, total |-> -1],
     time_label |-> [pos |-> -1, total |-> -1]]

\* MultiVideoCapture.get(cv2.CAP_PROP_FPS): positive for an opened capture.
has_fps(t) == t.current_capture.some /\ t.current_capture.opened

\* show_merged_frame: reads one frame of every track; shows them and
\* reports the front track's position unless no track gave a frame.
show_merged_frame(caps, d) ==
    IF DOMAIN caps = {} THEN [caps |-> caps, disp |-> d, net |-> 0]
    ELSE LET rd == [c \in DOMAIN caps |-> read(caps[c])]
             caps2 == [c \in DOMAIN caps |-> rd[c].trk]
             frames == {c \in DOMAIN caps : rd[c].ret}
             report == [pos |-> get_pos_frames(caps2["front"]),
                        total |-> get_frame_count(caps2["front"])]
         IN IF frames = {} THEN [caps |-> caps2, disp |-> d, net |-> ReadNet(caps)]
            ELSE [caps |-> caps2,
                  net |-> ReadNet(caps),
                  disp |->
                    [shown |-> [c \in Cameras |->
                        IF c \in frames
                        THEN caps2[c].frame_offsets[rd[c].clip + 1] + rd[c].local
                        ELSE -1],
                     progress |->
                        IF "front" \in DOMAIN caps /\ report.total > 0
                        THEN report ELSE d.progress,
                     time_label |->
                        IF "front" \in DOMAIN caps /\ report.total > 0
                            /\ has_fps(caps2["front"])
                        THEN report ELSE d.time_label]]

\* A faulty variant of frame_number_of: the product rounded to nearest.
frame_number_rounded(value, total_frames) == (2 * value * total_frames + 100) \div 200

\* "int((float(value) / 100) * total_frames)"
frame_number_of(value, total_frames) == (value * total_frames) \div 100

\* The cameras seek_video calls set() on.
seek_targets(caps) == IF "front" \in DOMAIN caps THEN DOMAIN caps ELSE {}

NoSeeks == [c \in Cameras |-> None]
NoLast == [handler |-> "none", value |-> 0, seek_args |-> NoSeeks]

\* A faulty variant of has_frames: every track must have frames left.
has_frames_all(caps) ==
    \A c \in DOMAIN caps : get_pos_frames(caps[c]) < get_frame_count(caps[c])

\* play_video's has_frames: some track reports a position below its count.
has_frames(caps) ==
    \E c \in DOMAIN caps : get_pos_frames(caps[c]) < get_frame_count(caps[c])

\* play_video, run with the tracks caps; due is whether
\* time_since_last_frame >= frame_duration.  sought: the tracks it called
\* set(CAP_PROP_POS_FRAMES, 0) on.
play_video(caps, playing, d, npending, due) ==
    IF playing /\ DOMAIN caps # {}
    THEN IF has_frames(caps)
         THEN LET r == IF due THEN show_merged_frame(caps, d)
                       ELSE [caps |-> caps, disp |-> d, net |-> 0]
              IN [caps |-> r.caps, playing |-> TRUE, disp |-> r.disp,
                  pending |-> npending + 1, sought |-> {}, net |-> r.net,
                  shows |-> IF due THEN 1 ELSE 0]
         ELSE [caps |-> [c \in DOMAIN caps |-> set_pos_frames(caps[c], 0)],
               playing |-> FALSE, disp |-> d, pending |-> npending,
               sought |-> DOMAIN caps, net |-> SetNet(caps, DOMAIN caps, 0),
               shows |-> 0]
    ELSE [caps |-> caps, playing |-> playing, disp |-> d, pending |-> npending,
          sought |-> {}, net |-> 0, shows |-> 0]

ViewIdle ==
    /\ event = <<>> /\ video_captures = <<>> /\ is_playing = FALSE /\ pending = 0
    /\ disp = NoDisplay /\ camera_clip_lists = EmptyLists
    /\ error_shown = FALSE /\ last = NoLast /\ decoders = 0

\* ------------------------------------------------------- idle components
NoTrack == MultiVideoCapture(<<>>)
NoHist == [op |-> "none", arg |-> 0, ret |-> FALSE, clip |-> -1, local |-> -1,
           prev_index |-> 0, replaced |-> FALSE]

\* The category folders searched, in the order of search_dirs.
Folders == <<"SavedClips", "SentryClips", "RecentClips">>

\* The first-clip paths events can have: folder and timestamp, in the order
\* refresh_file_list comes upon them.
EventPaths ==
    [i \in 1..(Len(Folders) * MaxStamp) |->
        [dir |-> Folders[((i - 1) \div MaxStamp) + 1],
         stamp |-> ((i - 1) % MaxStamp) + 1]]
PathSet == {EventPaths[i] : i \in DOMAIN EventPaths}

\* An event without tags and notes; a key missing in the metadata.
NoMeta == [tags |-> <<>>, notes |-> ""]
NoMetadata == [p \in PathSet |-> NoMeta]

ListIdle ==
    /\ teslacam_path = FALSE /\ disk_events = {} /\ folder_type = "All"
    /\ search_text = "" /\ video_files = <<>> /\ metadata = NoMetadata
    /\ metadata_file = NoMetadata /\ saved = NoMetadata

\* last_frame_time = 0 lies far back; playback_speed = 1.0
ClockIdle == since_last = MaxElapsed /\ playback_speed = 10 /\ tick_frames = 0

ExportIdle ==
    /\ exp_pc = "idle" /\ captures = <<>> /\ ref_total_frames = 0
    /\ out_open = FALSE /\ frame_count = 0 /\ progress = <<>>

SegIdle ==
    /\ front_files = <<>> /\ events = <<>> /\ refreshed = FALSE
    /\ more_files = <<>> /\ all_events = <<>> /\ selected = 0
    /\ path_lists = [c \in Cameras |-> <<>>]
TrackIdle == trk = NoTrack /\ hist = NoHist

\* ======================================================= segmenter spec
InitSeg ==
    /\ front_files \in SeqsUpTo(FrontNames, MaxFront)
    /\ more_files = <<>>
    /\ events = <<>>
    /\ all_events = <<>>
    /\ refreshed = FALSE
    /\ selected = 0
    /\ path_lists = EmptyLists
    /\ TrackIdle
    /\ ViewIdle
    /\ ExportIdle
    /\ ClockIdle
    /\ ListIdle

\* refresh_file_list with the category "All" over the two folders: the
\* groups of each folder's front clips, an event entry per group, and all
\* entries sorted newest first.  events are the first folder's groups.
RefreshFileList ==
    /\ events' = GroupClips(front_files)
    /\ all_events' = SortEvents(EventEntries(GroupClips(front_files), 1)
                                    \o EventEntries(GroupClips(more_files), 2))
    /\ refreshed' = TRUE
    /\ UNCHANGED <<front_files, more_files, selected, path_lists,
                   trackVars, viewVars, exportVars, clockVars, listVars>>

\* on_event_select: the files load_merged_video collects per camera for the
\* clips of the selected event; which files of the other cameras exist is
\* up to the disk.  (What is loaded from the lists is LoadMergedVideo.)
OnEventSelect ==
    /\ refreshed
    /\ \E index \in 1..Len(all_events) :
        \E disk \in [1..Len(all_events[index].clips) -> DiskPatterns] :
            /\ selected' = index
            /\ path_lists' = CollectPaths(all_events[index].clips, disk, 1, EmptyLists)
    /\ UNCHANGED <<front_files, more_files, events, all_events, refreshed,
                   trackVars, viewVars, exportVars, clockVars, listVars>>

NextSeg == RefreshFileList \/ OnEventSelect
SpecSeg == InitSeg /\ [][NextSeg]_vars

\* ------------------------------------------------- two folders, refreshed
InitFolders ==
    /\ front_files \in SeqsUpTo(FrontNames, MaxFront)
    /\ more_files \in SeqsUpTo(MoreNames, MaxMore)
    /\ events = <<>>
    /\ all_events = <<>>
    /\ refreshed = FALSE
    /\ selected = 0
    /\ path_lists = EmptyLists
    /\ TrackIdle
    /\ ViewIdle
    /\ ExportIdle
    /\ ClockIdle
    /\ ListIdle

NextFolders == RefreshFileList
SpecFolders == InitFolders /\ [][NextFolders]_vars

\* =========================================================== track spec
InitTrack ==
    /\ SegIdle
    /\ ViewIdle
    /\ ExportIdle
    /\ ClockIdle
    /\ ListIdle
    /\ \E paths \in ClipLists :
          /\ trk = MultiVideoCapture(paths)
          /\ hist = [NoHist EXCEPT !.op = "open"]

\* A track is used only until it is released (load_merged_video and
\* export_video_file release a track and drop it).
Live == hist.op # "release" /\ hist.op # "none"

ReadNext ==
    /\ Live
    /\ LET r == read(trk) IN
          /\ trk' = r.trk
          /\ hist' = [op |-> "read", arg |-> 0, ret |-> r.ret, clip |-> r.clip,
                      local |-> r.local, prev_index |-> trk.current_clip_index,
                      replaced |-> FALSE]
    /\ UNCHANGED <<segVars, viewVars, exportVars, clockVars, listVars>>

Seek ==
    /\ Live
    /\ \E k \in (0..(trk.total_frames + 1)) \cup {SeekFar} :
          /\ trk' = set_pos_frames(trk, k)
          /\ hist' = [op |-> "seek", arg |-> k, ret |-> FALSE, clip |-> -1,
                      local |-> -1, prev_index |-> trk.current_clip_index,
                      replaced |-> set_switches(trk, k)]
    /\ UNCHANGED <<segVars, viewVars, exportVars, clockVars, listVars>>

Release ==
    /\ Live
    /\ trk' = release(trk)
    /\ hist' = [NoHist EXCEPT !.op = "release",
                              !.prev_index = trk.current_clip_index]
    /\ UNCHANGED <<segVars, viewVars, exportVars, clockVars, listVars>>

NextTrack == ReadNext \/ Seek \/ Release
SpecTrack == InitTrack /\ [][NextTrack]_vars

\* ========================================================== viewer spec
\* The application with a folder open and one event of the list selected;
\* no event is loaded yet.
InitView ==
    /\ SegIdle
    /\ TrackIdle
    /\ ExportIdle
    /\ ClockIdle
    /\ ListIdle
    /\ event \in EventSet
    /\ video_captures = <<>>
    /\ is_playing = FALSE
    /\ pending = 0
    /\ disp = NoDisplay
    /\ camera_clip_lists = EmptyLists
    /\ error_shown = FALSE
    /\ last = NoLast
    /\ decoders = 0

\* load_merged_video(event): the old tracks are released and dropped.
LoadMergedVideo ==
    /\ LET lists == CollectLists(event, 1, EmptyLists)
           caps == OpenTracks(lists)
           run == show_merged_frame(caps, disp)
       IN \E r \in {run} :
          /\ camera_clip_lists' = lists
          /\ IF DOMAIN caps # {}
             THEN /\ video_captures' = r.caps
                  /\ disp' = r.disp
                  /\ is_playing' = FALSE
                  /\ error_shown' = FALSE
             ELSE /\ video_captures' = caps
                  /\ error_shown' = TRUE
                  /\ UNCHANGED <<disp, is_playing>>
          /\ decoders' = decoders + ReleaseNet(video_captures)
                + SumOver([c \in Cameras |-> init_opens(lists[c]) - init_releases(lists[c])],
                          {c \in Cameras : lists[c] # <<>>})
                + r.net
    /\ last' = [NoLast EXCEPT !.handler = "load"]
    /\ UNCHANGED <<segVars, trackVars, exportVars, clockVars, listVars, event, pending>>

\* seek_video(value)
SeekVideo ==
    /\ \E value \in SliderValues :
        LET frame_number ==
                frame_number_of(value, get_frame_count(video_captures["front"]))
            sought == seek_targets(video_captures)
            caps == [c \in DOMAIN video_captures |->
                        IF c \in sought
                        THEN set_pos_frames(video_captures[c], frame_number)
                        ELSE video_captures[c]]
            run == IF sought # {} /\ ~is_playing
                 THEN show_merged_frame(caps, disp)
                 ELSE [caps |-> caps, disp |-> disp, net |-> 0]
        IN \E r \in {run} :
           /\ video_captures' = r.caps
           /\ disp' = r.disp
           /\ decoders' = decoders + SetNet(video_captures, sought, frame_number) + r.net
           /\ last' = [handler |-> "seek", value |-> value,
                       seek_args |-> [c \in Cameras |->
                            IF c \in sought THEN frame_number ELSE None]]
    /\ UNCHANGED <<segVars, trackVars, exportVars, clockVars, listVars, event, is_playing, pending,
                   camera_clip_lists, error_shown>>

\* toggle_playback: on starting, play_video runs at once, before any time
\* has passed since last_frame_time was taken.
TogglePlayback ==
    /\ is_playing \/ pending < MaxPending
    /\ IF DOMAIN video_captures = {}
       THEN /\ UNCHANGED <<video_captures, is_playing, pending, disp, decoders>>
            /\ last' = [NoLast EXCEPT !.handler = "toggle"]
       ELSE LET run == play_video(video_captures, ~is_playing, disp, pending, FALSE)
            IN \E r \in {run} :
               /\ video_captures' = r.caps
               /\ is_playing' = r.playing
               /\ pending' = r.pending
               /\ disp' = r.disp
               /\ decoders' = decoders + r.net
               /\ last' = [handler |-> "toggle", value |-> 0,
                           seek_args |-> [c \in Cameras |->
                               IF c \in r.sought THEN 0 ELSE None]]
    /\ UNCHANGED <<segVars, trackVars, exportVars, clockVars, listVars, event, camera_clip_lists, error_shown>>

\* A scheduled play_video callback runs; enough time for the next frame may
\* or may not have passed.
PlayVideoTick ==
    /\ pending > 0
    /\ \E due \in BOOLEAN :
        LET run == play_video(video_captures, is_playing, disp, pending - 1, due)
        IN \E r \in {run} :
           /\ video_captures' = r.caps
           /\ is_playing' = r.playing
           /\ pending' = r.pending
           /\ disp' = r.disp
           /\ decoders' = decoders + r.net
           /\ last' = [handler |-> "tick", value |-> 0,
                       seek_args |-> [c \in Cameras |->
                           IF c \in r.sought THEN 0 ELSE None]]
    /\ UNCHANGED <<segVars, trackVars, exportVars, clockVars, listVars, event, camera_clip_lists, error_shown>>

\* A faulty variant of stop_video: the tracks are not sought back to 0.
StopVideoNoSeek ==
    /\ LET run == show_merged_frame(video_captures, disp)
       IN \E r \in {run} :
          /\ video_captures' = r.caps
          /\ disp' = r.disp
          /\ decoders' = decoders + r.net
    /\ is_playing' = FALSE
    /\ last' = [NoLast EXCEPT !.handler = "stop"]
    /\ UNCHANGED <<segVars, trackVars, exportVars, clockVars, listVars, event, pending, camera_clip_lists, error_shown>>

\* stop_video
StopVideo ==
    /\ LET caps == [c \in DOMAIN video_captures |->
                        set_pos_frames(video_captures[c], 0)]
           run == show_merged_frame(caps, disp)
       IN \E r \in {run} :
          /\ video_captures' = r.caps
          /\ disp' = r.disp
          /\ decoders' = decoders
                + SetNet(video_captures, DOMAIN video_captures, 0) + r.net
    /\ is_playing' = FALSE
    /\ last' = [handler |-> "stop", value |-> 0,
                seek_args |-> [c \in Cameras |->
                    IF c \in DOMAIN video_captures THEN 0 ELSE None]]
    /\ UNCHANGED <<segVars, trackVars, exportVars, clockVars, listVars, event, pending, camera_clip_lists, error_shown>>

NextView == LoadMergedVideo \/ SeekVideo \/ TogglePlayback \/ PlayVideoTick \/ StopVideo
SpecView == InitView /\ [][NextView]_vars

\* ========================================================== export spec
\* The order in which export_video_file's camera_clip_lists, and so its
\* captures, hold the cameras.
CameraOrder == <<"front", "left", "right", "back">>

\* front_cap: captures.get('front', list(captures.values())[0])
front_cap(caps) ==
    IF "front" \in DOMAIN caps THEN caps["front"]
    ELSE LET i == CHOOSE i \in 1..Len(CameraOrder) :
                    /\ CameraOrder[i] \in DOMAIN caps
                    /\ \A j \in 1..(i - 1) : CameraOrder[j] \notin DOMAIN caps
         IN caps[CameraOrder[i]]

\* The application with one event of the list selected, nothing loaded and
\* no export started.
InitExport ==
    /\ SegIdle
    /\ TrackIdle
    /\ ExportIdle
    /\ ClockIdle
    /\ ListIdle
    /\ event \in EventSet
    /\ video_captures = <<>>
    /\ is_playing = FALSE
    /\ pending = 0
    /\ disp = NoDisplay
    /\ camera_clip_lists = EmptyLists
    /\ error_shown = FALSE
    /\ last = NoLast
    /\ decoders = 0

\* export_event starts the export thread, which runs export_video_file up
\* to its loop: the tracks of its own are built from the event's files; with
\* none, "No video files found to export" is raised.  One export runs at a
\* time.
ExportEvent ==
    /\ exp_pc # "loop"
    /\ LET caps == OpenTracks(CollectLists(event, 1, EmptyLists))
       IN /\ captures' = caps
          /\ IF DOMAIN caps = {}
             THEN /\ exp_pc' = "failed"
                  /\ ref_total_frames' = 0
                  /\ out_open' = FALSE
             ELSE /\ exp_pc' = "loop"
                  /\ ref_total_frames' = get_frame_count(front_cap(caps))
                  /\ out_open' = TRUE
    /\ frame_count' = 0
    /\ progress' = <<>>
    /\ UNCHANGED <<segVars, trackVars, clockVars, listVars, viewVars>>

\* A faulty variant of ExportFrame: the loop reads the viewer's tracks.
ExportFrameShared ==
    /\ exp_pc = "loop"
    /\ LET rd == [c \in DOMAIN video_captures |-> read(video_captures[c])]
           caps2 == [c \in DOMAIN video_captures |-> rd[c].trk]
       IN IF \E c \in DOMAIN video_captures : rd[c].ret
          THEN /\ video_captures' = caps2
               /\ captures' = caps2
               /\ frame_count' = frame_count + 1
               /\ progress' = IF ref_total_frames > 0
                               THEN Append(progress, [frame_count |-> frame_count + 1,
                                                      total_frames |-> ref_total_frames])
                               ELSE progress
               /\ UNCHANGED <<exp_pc, out_open>>
          ELSE /\ exp_pc' = "done"
               /\ out_open' = FALSE
               /\ video_captures' = [c \in DOMAIN video_captures |-> release(caps2[c])]
               /\ captures' = video_captures'
               /\ UNCHANGED <<frame_count, progress>>
    /\ UNCHANGED <<segVars, trackVars, clockVars, listVars, ref_total_frames, event, is_playing, pending,
                   disp, camera_clip_lists, error_shown, last, decoders>>

\* One pass of export_video_file's loop: a frame of every track is read; if
\* none gave one the loop ends and the writer and the tracks are released;
\* otherwise the merged frame is written and the progress reported.
ExportFrame ==
    /\ exp_pc = "loop"
    /\ LET rd == [c \in DOMAIN captures |-> read(captures[c])]
           caps2 == [c \in DOMAIN captures |-> rd[c].trk]
       IN IF \E c \in DOMAIN captures : rd[c].ret
          THEN /\ captures' = caps2
               /\ frame_count' = frame_count + 1
               /\ progress' = IF ref_total_frames > 0
                               THEN Append(progress, [frame_count |-> frame_count + 1,
                                                      total_frames |-> ref_total_frames])
                               ELSE progress
               /\ UNCHANGED <<exp_pc, out_open>>
          ELSE /\ exp_pc' = "done"
               /\ out_open' = FALSE
               /\ captures' = [c \in DOMAIN captures |-> release(caps2[c])]
               /\ UNCHANGED <<frame_count, progress>>
    /\ UNCHANGED <<segVars, trackVars, clockVars, listVars, viewVars, ref_total_frames>>

\* One pass of the loop in which a step after the reads raises (cv2.resize,
\* the grid, out.write, update_progress): the exception leaves
\* export_video_file and export_thread reports it; the cleanup after the
\* loop is not reached.
ExportError ==
    /\ exp_pc = "loop"
    /\ LET rd == [c \in DOMAIN captures |-> read(captures[c])]
       IN /\ \E c \in DOMAIN captures : rd[c].ret
          /\ captures' = [c \in DOMAIN captures |-> rd[c].trk]
    /\ exp_pc' = "failed"
    /\ UNCHANGED <<segVars, trackVars, clockVars, listVars, viewVars, ref_total_frames, out_open,
                   frame_count, progress>>

NextExport == ExportEvent \/ ExportFrame \/ ExportError
SpecExport == InitExport /\ [][NextExport]_vars

\* ------------------------------------------- export next to the playback
\* An event of one clip per camera is selected; the viewer's handlers and
\* the export thread's steps interleave.
InitBoth ==
    /\ SegIdle
    /\ TrackIdle
    /\ ExportIdle
    /\ ClockIdle
    /\ ListIdle
    /\ event \in EventsOfLen(1)
    /\ video_captures = <<>>
    /\ is_playing = FALSE
    /\ pending = 0
    /\ disp = NoDisplay
    /\ camera_clip_lists = EmptyLists
    /\ error_shown = FALSE
    /\ last = NoLast
    /\ decoders = 0

NextBoth == NextView \/ NextExport
SpecBoth == InitBoth /\ [][NextBoth]_vars

\* ==================================================== timed viewer spec
\* The speeds of the speed buttons, in tenths: 0.5, 1.0, 1.5, 2.0, 3.0.
Speeds == {5, 10, 15, 20, 30}

\* A faulty variant of frame_due: the speed is not taken into account.
frame_due_unscaled(elapsed, speed) == elapsed >= BaseInterval

\* "time_since_last_frame >= frame_duration" with frame_duration =
\* 0.030 / playback_speed, in whole milliseconds and tenths.
frame_due(elapsed, speed) == elapsed * speed >= BaseInterval * 10

\* Events of one or two clips with front and back files only.
ClockEvents ==
    {ev \in EventsOfLen(1) \cup EventsOfLen(2) :
        \A i \in 1..Len(ev) : ~ev[i].left.exists /\ ~ev[i].right.exists}

InitClock ==
    /\ SegIdle
    /\ TrackIdle
    /\ ExportIdle
    /\ ClockIdle
    /\ ListIdle
    /\ event \in ClockEvents
    /\ video_captures = <<>>
    /\ is_playing = FALSE
    /\ pending = 0
    /\ disp = NoDisplay
    /\ camera_clip_lists = EmptyLists
    /\ error_shown = FALSE
    /\ last = NoLast
    /\ decoders = 0

\* The clock moves on.
TimePasses ==
    /\ since_last < MaxElapsed
    /\ since_last' = Min(since_last + TimeStep, MaxElapsed)
    /\ UNCHANGED <<segVars, trackVars, viewVars, exportVars, listVars, playback_speed, tick_frames>>

\* set_playback_speed(speed)
SetPlaybackSpeed ==
    /\ \E speed \in Speeds : playback_speed' = speed
    /\ UNCHANGED <<segVars, trackVars, viewVars, exportVars, listVars, since_last, tick_frames>>

\* toggle_playback: on starting, last_frame_time is set to the present and
\* play_video runs at once.
ClockToggle ==
    /\ is_playing \/ pending < MaxChains
    /\ IF DOMAIN video_captures = {}
       THEN /\ UNCHANGED <<video_captures, is_playing, pending, disp, decoders,
                           since_last, tick_frames>>
            /\ last' = [NoLast EXCEPT !.handler = "toggle"]
       ELSE LET run == play_video(video_captures, ~is_playing, disp, pending,
                                frame_due(0, playback_speed))
            IN \E r \in {run} :
               /\ video_captures' = r.caps
               /\ is_playing' = r.playing
               /\ pending' = r.pending
               /\ disp' = r.disp
               /\ decoders' = decoders + r.net
               /\ since_last' = IF is_playing THEN since_last ELSE 0
               /\ tick_frames' = r.shows
               /\ last' = [handler |-> "toggle", value |-> 0,
                           seek_args |-> [c \in Cameras |->
                               IF c \in r.sought THEN 0 ELSE None]]
    /\ UNCHANGED <<segVars, trackVars, exportVars, listVars, playback_speed, event,
                   camera_clip_lists, error_shown>>

\* A scheduled play_video callback runs: a frame is shown, and
\* last_frame_time set to the present, if the time since last_frame_time
\* is at least the frame duration.
ClockTick ==
    /\ pending > 0
    /\ LET due == frame_due(since_last, playback_speed)
           run == play_video(video_captures, is_playing, disp, pending - 1, due)
       IN \E r \in {run} :
          /\ video_captures' = r.caps
          /\ is_playing' = r.playing
          /\ pending' = r.pending
          /\ disp' = r.disp
          /\ decoders' = decoders + r.net
          /\ since_last' = IF r.shows > 0 THEN 0 ELSE since_last
          /\ tick_frames' = r.shows
          /\ last' = [handler |-> "tick", value |-> 0,
                      seek_args |-> [c \in Cameras |->
                          IF c \in r.sought THEN 0 ELSE None]]
    /\ UNCHANGED <<segVars, trackVars, exportVars, listVars, playback_speed, event,
                   camera_clip_lists, error_shown>>

NextClock ==
    LoadMergedVideo \/ ClockToggle \/ ClockTick \/ SetPlaybackSpeed \/ TimePasses
SpecClock == InitClock /\ [][NextClock]_vars

\* Playing left alone: the user loads an event or presses play only while
\* playing is off; scheduled callbacks run and the clock moves on.
LoadWhileOff == ~is_playing /\ LoadMergedVideo
PlayWhileOff == ~is_playing /\ ClockToggle
NextPlay == LoadWhileOff \/ PlayWhileOff \/ ClockTick \/ TimePasses
SpecPlayFair ==
    InitClock /\ [][NextPlay]_vars /\ WF_vars(ClockTick) /\ WF_vars(TimePasses)

\* ================================================ event list and tags
\* The values of the category buttons.
Categories == {"All"} \cup {Folders[i] : i \in DOMAIN Folders}

\* What the tag dialog returns.
DialogResults ==
    {[tags |-> <<"x">>, notes |-> ""], [tags |-> <<>>, notes |-> "n"], NoMeta}

\* Texts typed into the search box: none, part of a type, a tag.
SearchTexts == {"", "sentry", "x"}

\* get_event_key: the path of the event's first clip.
get_event_key(event_data) == event_data.clips[1]

\* refresh_file_list's search_dirs.
search_dirs(ft) ==
    IF ft = "All" THEN {Folders[i] : i \in DOMAIN Folders} ELSE {ft}

\* refresh_file_list's event entries for the events found on the card in
\* the searched folders, tags and notes taken from self.metadata.
ListEntries(disk, ft, md) ==
    LET Found(p) == p \in disk /\ p.dir \in search_dirs(ft)
        ps == SelectSeq(EventPaths, Found)
    IN [k \in 1..Len(ps) |->
           [clips |-> <<ps[k]>>, timestamp |-> ps[k].stamp, type |-> ps[k].dir,
            tags |-> md[ps[k]].tags, notes |-> md[ps[k]].notes]]

\* filter_events' test "search_text not in searchable" for the texts of
\* SearchTexts: date and time hold digits and am/pm only, the lower-cased
\* type holds "sentry" for SentryClips, the tags are joined by blanks.
in_searchable(text, ev) ==
    \/ text = "sentry" /\ ev.type = "SentryClips"
    \/ \E i \in DOMAIN ev.tags : ev.tags[i] = text

\* filter_events: self.video_files, the clips of the events shown.
filter_events(evs, text) ==
    LET Shown(ev) == text = "" \/ in_searchable(text, ev)
        rows == SelectSeq(evs, Shown)
    IN [k \in 1..Len(rows) |-> rows[k].clips]

\* save_metadata: the file is rebuilt from self.all_events.
save_metadata(evs) ==
    [p \in PathSet |->
        IF \E k \in 1..Len(evs) :
              get_event_key(evs[k]) = p /\ (evs[k].tags # <<>> \/ evs[k].notes # "")
        THEN LET k == CHOOSE k \in 1..Len(evs) : get_event_key(evs[k]) = p
             IN [tags |-> evs[k].tags, notes |-> evs[k].notes]
        ELSE NoMeta]

\* What teslacam_metadata.json can hold at the start: nothing, or tags or
\* notes of one event on the card.
StoredMetadata(disk) ==
    {NoMetadata} \cup
    {[NoMetadata EXCEPT ![p] = r] : p \in disk, r \in DialogResults \ {NoMeta}}

InitList ==
    /\ SegIdle
    /\ TrackIdle
    /\ ViewIdle
    /\ ExportIdle
    /\ ClockIdle
    /\ teslacam_path = FALSE
    /\ disk_events \in {d \in SUBSET PathSet : d # {} /\ Cardinality(d) <= MaxOnCard}
    /\ folder_type = "All"
    /\ search_text = ""
    /\ video_files = <<>>
    /\ metadata = NoMetadata
    /\ metadata_file \in StoredMetadata(disk_events)
    /\ saved = metadata_file

\* open_folder / auto_detect_teslacam: load_metadata, refresh_file_list.
OpenFolder ==
    /\ teslacam_path' = TRUE
    /\ metadata' = metadata_file
    /\ all_events' = SortEvents(ListEntries(disk_events, folder_type, metadata'))
    /\ video_files' = filter_events(all_events', search_text)
    /\ UNCHANGED <<front_files, events, refreshed, more_files, selected, path_lists,
                   trackVars, viewVars, exportVars, clockVars,
                   disk_events, folder_type, search_text, metadata_file, saved>>

\* A category button is pressed: refresh_file_list.
SelectCategory ==
    /\ \E ft \in Categories :
        /\ folder_type' = ft
        /\ IF teslacam_path
           THEN /\ all_events' = SortEvents(ListEntries(disk_events, ft, metadata))
                /\ video_files' = filter_events(all_events', search_text)
           ELSE UNCHANGED <<all_events, video_files>>
    /\ UNCHANGED <<front_files, events, refreshed, more_files, selected, path_lists,
                   trackVars, viewVars, exportVars, clockVars,
                   teslacam_path, disk_events, search_text, metadata,
                   metadata_file, saved>>

\* The search text is changed: filter_events.
SetSearch ==
    /\ \E text \in SearchTexts :
        /\ search_text' = text
        /\ video_files' = filter_events(all_events, text)
    /\ UNCHANGED <<segVars, trackVars, viewVars, exportVars, clockVars,
                   teslacam_path, disk_events, folder_type, metadata,
                   metadata_file, saved>>

\* edit_tags_notes on row index of the list, the dialog returning result:
\* the entry all_events[index] gets the tags and notes, save_metadata,
\* filter_events.
EditTagsNotes ==
    /\ \E index \in 1..Len(video_files) : \E result \in DialogResults :
        /\ all_events' = [all_events EXCEPT ![index].tags = result.tags,
                                            ![index].notes = result.notes]
        /\ metadata_file' = IF teslacam_path THEN save_metadata(all_events')
                            ELSE metadata_file
        /\ video_files' = filter_events(all_events', search_text)
        /\ saved' = [saved EXCEPT ![get_event_key(all_events[index])] = result]
    /\ UNCHANGED <<front_files, events, refreshed, more_files, selected, path_lists,
                   trackVars, viewVars, exportVars, clockVars,
                   teslacam_path, disk_events, folder_type, search_text, metadata>>

NextList == OpenFolder \/ SelectCategory \/ SetSearch \/ EditTagsNotes
SpecList == InitList /\ [][NextList]_vars

\* =============================================================== claims

\* ---- helpers of the segmenter's claims
RECURSIVE Flatten(_)
Flatten(evs) == IF evs = <<>> THEN <<>> ELSE Head(evs) \o Flatten(Tail(evs))

RECURSIVE LenSum(_, _)
LenSum(evs, k) == IF k = 0 THEN 0 ELSE Len(evs[k]) + LenSum(evs, k - 1)

\* An event ends right after position i of the flattened list.
SplitAfter(evs, i) == \E k \in 1..Len(evs) : LenSum(evs, k) = i

StampedClips == {i \in 1..Len(front_files) : parse_timestamp(front_files[i]) # None}

\* C1: after a refresh, the events are the folder's timestamped front clips
\* in ascending order, cut into non-empty runs, and a cut lies between two
\* consecutive clips if and only if their gap is strictly greater than 900
\* seconds (900 never splits, 901 always splits).
C1_SplitIffGapExceeds ==
    refreshed =>
        LET flat == Flatten(events) IN
        /\ \A k \in 1..Len(events) : events[k] # <<>>
        /\ Len(flat) = Cardinality(StampedClips)
        /\ {flat[i].clip : i \in 1..Len(flat)} = StampedClips
        /\ \A i \in 1..Len(flat) : flat[i].ts = parse_timestamp(front_files[flat[i].clip])
        /\ \A i \in 1..(Len(flat) - 1) :
              /\ flat[i].ts <= flat[i + 1].ts
              /\ SplitAfter(events, i) <=> flat[i + 1].ts - flat[i].ts > 900
              /\ flat[i + 1].ts - flat[i].ts = 900 => ~SplitAfter(events, i)
              /\ flat[i + 1].ts - flat[i].ts = 901 => SplitAfter(events, i)

\* C1 witness: a refreshed folder holding a gap of exactly 900 seconds inside
\* one event and a gap of 901 seconds between two events.
C1_Witness ==
    /\ refreshed
    /\ LET flat == Flatten(events) IN
       /\ \E i \in 1..(Len(flat) - 1) :
             flat[i + 1].ts - flat[i].ts = 900 /\ ~SplitAfter(events, i)
       /\ \E i \in 1..(Len(flat) - 1) :
             flat[i + 1].ts - flat[i].ts = 901 /\ SplitAfter(events, i)

\* ---- helpers of the track's claims
Frames(f) == IF f.ok THEN f.n ELSE 0

RECURSIVE SumFrames(_, _)
SumFrames(paths, k) == IF k = 0 THEN 0 ELSE Frames(paths[k]) + SumFrames(paths, k - 1)

\* The owning segment: the last segment (0-based) whose offset is <= k.
Owning(t, k) ==
    CHOOSE i \in 0..(Len(t.frame_offsets) - 1) :
        /\ t.frame_offsets[i + 1] <= k
        /\ \A j \in (i + 1)..(Len(t.frame_offsets) - 1) : t.frame_offsets[j + 1] > k

HasEmptyClip(t) == \E i \in 1..Len(t.video_paths) : Frames(t.video_paths[i]) = 0

\* C2: seek(k) for k in [0, totalFrames()) followed by currentPosition()
\* returns k, from every prior state of the track, zero-frame clips included.
C2_SeekThenPosition ==
    (hist.op = "seek" /\ hist.arg < trk.total_frames) =>
        get_pos_frames(trk) = hist.arg

\* C2 witness: a seek into a later clip of a track that holds an empty clip,
\* made while another clip was open.
C2_Witness ==
    /\ hist.op = "seek" /\ hist.arg < trk.total_frames
    /\ HasEmptyClip(trk)
    /\ trk.current_clip_index > 0
    /\ hist.prev_index # trk.current_clip_index
    /\ get_pos_frames(trk) = hist.arg

\* C3 (the claim as stated): a seek to a frame >= totalFrames() leaves the
\* track in its last clip at position totalFrames() - 1.
C3_SeekPastEndClamps ==
    (hist.op = "seek" /\ hist.arg >= trk.total_frames /\ trk.total_frames > 0) =>
        /\ trk.current_clip_index = Len(trk.video_paths) - 1
        /\ get_pos_frames(trk) = trk.total_frames - 1

\* C4: a seek to k in [0, totalFrames()) opens the owning segment, sets the
\* local position to k minus its offset, and replaces the decoder exactly
\* when the owning segment is not the one that was open; on [10, 7, 5],
\* seek(12) lands in the second clip at local frame 2.
C4_SeekOpensOwner ==
    (hist.op = "seek" /\ hist.arg < trk.total_frames) =>
        LET own == Owning(trk, hist.arg) IN
        /\ trk.current_clip_index = own
        /\ isOpened(trk)
        /\ trk.current_capture.pos = hist.arg - trk.frame_offsets[own + 1]
        /\ hist.replaced <=> own # hist.prev_index
        /\ (trk.video_paths = ExampleClips /\ hist.arg = 12) =>
              (trk.current_clip_index = 1 /\ trk.current_capture.pos = 2)

\* C4 witness: seek(12) on [10, 7, 5] from the first clip.
C4_Witness ==
    /\ hist.op = "seek" /\ hist.arg = 12
    /\ trk.video_paths = ExampleClips
    /\ hist.prev_index = 0 /\ hist.replaced
    /\ trk.current_clip_index = 1 /\ trk.current_capture.pos = 2

\* C5: in every state of a track (after open and after any read, seek or
\* release) offset[0] = 0, offset[i+1] = offset[i] + frames(segment[i]) with
\* an unopenable segment counting 0, offsets are non-decreasing, and the
\* total is the sum of all frame counts (22 for [10, 7, 5]).
C5_OffsetTable ==
    hist.op # "none" =>
        LET n == Len(trk.video_paths) IN
        /\ Len(trk.frame_offsets) = n
        /\ trk.frame_offsets[1] = 0
        /\ \A i \in 1..(n - 1) :
              /\ trk.frame_offsets[i + 1] = trk.frame_offsets[i] + Frames(trk.video_paths[i])
              /\ trk.frame_offsets[i] <= trk.frame_offsets[i + 1]
        /\ trk.total_frames = SumFrames(trk.video_paths, n)
        /\ trk.video_paths = ExampleClips => trk.total_frames = 22

\* C5 witness: a released track with an unopenable clip before a clip that
\* has frames, after its open clip had changed.
C5_Witness ==
    /\ hist.op = "release" /\ hist.prev_index > 0
    /\ \E i \in 1..(Len(trk.video_paths) - 1) :
          ~trk.video_paths[i].ok /\ Frames(trk.video_paths[i + 1]) > 0
    /\ trk.total_frames > 0

\* Segment j (0-based) of t can still yield a frame.
CanYield(t, j) ==
    /\ t.video_paths[j + 1].ok
    /\ IF j = t.current_clip_index /\ isOpened(t)
       THEN t.current_capture.pos < t.current_capture.n
       ELSE t.video_paths[j + 1].n > 0

\* C6 (the claim as stated): on a track whose first clip opened, a read
\* returns "exhausted" only when no segment at or after the open one can
\* still yield a frame.
C6_ExhaustedOnlyAtEnd ==
    (hist.op = "read" /\ ~hist.ret /\ trk.video_paths[1].ok) =>
        \A j \in trk.current_clip_index..(Len(trk.video_paths) - 1) : ~CanYield(trk, j)

\* C7 (the claim as stated): a track whose list holds at least one segment
\* that opens (here: one that opens and has frames) is reported opened.
C7_OpensIfAnySegmentOpens ==
    (hist.op = "open" /\ \E i \in 1..Len(trk.video_paths) : Frames(trk.video_paths[i]) > 0) =>
        isOpened(trk)

\* ---- helpers of the viewer's claims
\* Camera c's files of the event that exist, in the event's order.
RECURSIVE ClipsOf(_, _)
ClipsOf(c, k) ==
    IF k = 0 THEN <<>>
    ELSE IF event[k][c].exists
         THEN Append(ClipsOf(c, k - 1), [ok |-> event[k][c].ok, n |-> event[k][c].n])
         ELSE ClipsOf(c, k - 1)

SegmentList(c) == ClipsOf(c, Len(event))

\* Camera c's track reports itself opened.
TrackOpens(c) == isOpened(MultiVideoCapture(SegmentList(c)))

Present == DOMAIN video_captures

\* C8: after a load the TrackSet holds exactly the cameras whose segment
\* list is non-empty and whose track reports itself opened, each over its
\* segment list; a camera with no segments or a failed track is absent
\* without aborting the load, and the load reports its error if and only if
\* every camera is absent.
C8_LoadKeepsOpenedCameras ==
    last.handler = "load" =>
        /\ Present = {c \in Cameras : SegmentList(c) # <<>> /\ TrackOpens(c)}
        /\ \A c \in Present : video_captures[c].video_paths = SegmentList(c)
        /\ error_shown <=> Present = {}

\* C8 witness: a load that succeeded although one camera has no segment and
\* another camera's track failed to open.
C8_Witness ==
    /\ last.handler = "load" /\ ~error_shown
    /\ Present # {}
    /\ \E c \in Cameras : SegmentList(c) = <<>> /\ c \notin Present
    /\ \E c \in Cameras : SegmentList(c) # <<>> /\ ~TrackOpens(c) /\ c \notin Present

\* round(num / den) for num >= 0, den > 0, halves up.
RoundNearest(num, den) == (2 * num + den) \div (2 * den)

\* C9 (the claim as stated, where the reference track is the front track):
\* a seek passes round(f * totalFrames(front)) to every present track.
C9_SeekTargetRounded ==
    (last.handler = "seek" /\ "front" \in Present) =>
        \A c \in Present :
            last.seek_args[c] =
                RoundNearest(last.value * get_frame_count(video_captures["front"]), 100)

\* C9 (amended): every track a seek repositions gets one and the same target
\* t, the product f * totalFrames(front) truncated (100 t <= value * total <
\* 100 (t + 1)); with the front track present every present track is
\* repositioned, and no track is without it.
C9_SeekTargetTruncated ==
    last.handler = "seek" =>
        /\ "front" \in Present =>
              \A c \in Present :
                  LET t == last.seek_args[c]
                      total == get_frame_count(video_captures["front"])
                  IN /\ t # None
                     /\ 100 * t <= last.value * total
                     /\ last.value * total < 100 * (t + 1)
                     /\ t = last.seek_args["front"]
        /\ \A c \in Cameras :
              last.seek_args[c] # None => (c \in Present /\ "front" \in Present)

\* C9 witness: a seek to 30 % over a front track and another track, whose
\* truncated target is not the rounded one.
C9_Witness ==
    /\ last.handler = "seek" /\ last.value = 30
    /\ "front" \in Present /\ Cardinality(Present) >= 2
    /\ \E c \in Present \ {"front"} :
          /\ get_frame_count(video_captures[c]) # get_frame_count(video_captures["front"])
          /\ last.seek_args[c] = last.seek_args["front"]
    /\ last.seek_args["front"] #
          RoundNearest(30 * get_frame_count(video_captures["front"]), 100)

\* C10 (the claim as stated): with the front track absent and another track
\* present, a seek still repositions the present tracks.
C10_SeekWithoutFront ==
    (last.handler = "seek" /\ Present # {} /\ "front" \notin Present) =>
        \A c \in Present : last.seek_args[c] # None

\* What one more stop_video would leave of the tracks and the display.
StopAgain ==
    show_merged_frame([c \in Present |-> set_pos_frames(video_captures[c], 0)], disp)

\* C11 (the claim as stated): after stop() the viewer is not playing and
\* every present track's currentPosition() is 0.
C11_StopAtZero ==
    last.handler = "stop" =>
        /\ ~is_playing
        /\ \A c \in Present : get_pos_frames(video_captures[c]) = 0

\* C11 (amended): after stop() the viewer is not playing, every present
\* track was sought to 0 and then read once, so that frame 0 is on display
\* and currentPosition() is 1; one more stop() would leave the tracks and
\* the display exactly as they are.
C11_StopShowsFirstFrame ==
    last.handler = "stop" =>
        /\ ~is_playing
        /\ \A c \in Present :
              /\ last.seek_args[c] = 0
              /\ get_pos_frames(video_captures[c]) = 1
              /\ disp.shown[c] = 0
        /\ StopAgain.caps = video_captures
        /\ StopAgain.disp = disp

\* C11 witness: a stop over at least two tracks of different lengths.
C11_Witness ==
    /\ last.handler = "stop" /\ ~is_playing
    /\ \E c, d \in Present :
          get_frame_count(video_captures[c]) # get_frame_count(video_captures[d])
    /\ \A c \in Present : get_pos_frames(video_captures[c]) = 1

\* C12: a play_video callback that runs while playing stops the playback
\* exactly when every present track reports a position that reached its
\* total: then it clears is_playing, seeks every present track to 0 and
\* schedules no further callback; while some present track reports a
\* position below its total, the callback leaves the viewer playing.
C12_TickStopsOnlyAtEnd ==
    [][(last'.handler = "tick" /\ is_playing /\ Present # {}) =>
          IF \A c \in Present :
                get_pos_frames(video_captures[c]) >= get_frame_count(video_captures[c])
          THEN /\ ~is_playing'
               /\ video_captures' =
                     [c \in Present |-> set_pos_frames(video_captures[c], 0)]
               /\ \A c \in Present : last'.seek_args[c] = 0
               /\ pending' = pending - 1
          ELSE /\ is_playing'
               /\ pending' = pending
               /\ \A c \in Cameras : last'.seek_args[c] = None]_vars

\* C12 witness: a callback has stopped the playback of tracks of different
\* lengths and left them all at position 0 with nothing scheduled.
C12_Witness ==
    /\ last.handler = "tick" /\ ~is_playing /\ pending = 0
    /\ \E c, d \in Present :
          get_frame_count(video_captures[c]) # get_frame_count(video_captures[d])
    /\ \A c \in Present :
          last.seek_args[c] = 0 /\ get_pos_frames(video_captures[c]) = 0

\* A decoder of the export is open.
ExportDecoderOpen ==
    \E c \in DOMAIN captures :
        captures[c].current_capture.some /\ captures[c].current_capture.opened

\* C13 (the claim as stated): an export that ran to its end wrote exactly
\* totalFrames(reference track) frames.
C13_WritesEqualReferenceTotal ==
    exp_pc = "done" => frame_count = ref_total_frames

\* C14 (the claim as stated): every reported progress value is
\* framesWritten / referenceTotalFrames, lies in [0, 1], exceeds the one
\* before it, and the last one of a finished export is 1.
C14_ProgressWithinUnit ==
    /\ \A i \in 1..Len(progress) :
          /\ progress[i].total_frames = ref_total_frames
          /\ progress[i].frame_count >= 0
          /\ progress[i].frame_count <= progress[i].total_frames
          /\ i > 1 => progress[i].frame_count > progress[i - 1].frame_count
    /\ Len(progress) > 0 => progress[Len(progress)].frame_count = frame_count
    /\ exp_pc = "done" =>
          /\ Len(progress) > 0
          /\ progress[Len(progress)].frame_count = progress[Len(progress)].total_frames

\* C15 (the claim as stated): once an export has ended, by its end or by an
\* error, none of its decoders and not its writer is open.
C15_NothingOpenAfterExport ==
    exp_pc \in {"done", "failed"} => (~out_open /\ ~ExportDecoderOpen)

\* C16: a step of the export leaves the viewer's tracks as they are, and a
\* handler of the viewer leaves the export's tracks as they are, in every
\* interleaving of the two.
C16_DisjointTracks ==
    [][/\ NextExport => video_captures' = video_captures
       /\ NextView => captures' = captures]_vars

\* C16 witness: the export is in its loop over a camera's track while the
\* playing viewer holds a track of the same camera at another position.
C16_Witness ==
    /\ exp_pc = "loop" /\ frame_count > 0 /\ is_playing
    /\ last.handler = "tick"
    /\ \E c \in DOMAIN captures \cap Present :
          /\ get_pos_frames(captures[c]) # get_pos_frames(video_captures[c])
          /\ get_pos_frames(video_captures[c]) > 1

\* ---- helpers of the later segmenter claims
Unstamped == {i \in 1..Len(front_files) : parse_timestamp(front_files[i]) = None}

\* The file names of the events' clips.
NamesOf(evs) == [k \in 1..Len(evs) |-> [i \in 1..Len(evs[k]) |-> evs[k][i].name]]

IsStamped(name) == parse_timestamp(name) # None

\* C17 (the claim as stated): after a refresh every front clip without a
\* parseable timestamp is an event of its own, and in the sort it follows
\* every timestamped clip.
C17_UnstampedKeptAsEvents ==
    refreshed =>
        /\ \A i \in Unstamped :
              \E k \in 1..Len(events) : Len(events[k]) = 1 /\ events[k][1].clip = i
        /\ LET sorted == SortClips(Collect(front_files)) IN
              \A i, j \in 1..Len(sorted) :
                  (sorted[i].ts = None /\ sorted[j].ts # None) => j < i

\* C17 (amended): a refresh completes whatever the names are; a front clip
\* without a parseable timestamp sorts before every timestamped clip, is in
\* no event, and the events are those of the folder without it.
C17_UnstampedDropped ==
    refreshed =>
        /\ \A k \in 1..Len(events) : \A i \in 1..Len(events[k]) :
              events[k][i].clip \notin Unstamped
        /\ NamesOf(events) = NamesOf(GroupClips(SelectSeq(front_files, IsStamped)))
        /\ LET sorted == SortClips(Collect(front_files)) IN
              \A i, j \in 1..Len(sorted) :
                  (sorted[i].ts = None /\ sorted[j].ts # None) => i < j

\* C17 witness: a refreshed folder in which a clip without timestamp lies
\* between two timestamped clips that end up in events.
C17_Witness ==
    /\ refreshed /\ events # <<>>
    /\ \E i \in Unstamped : \E h, j \in StampedClips : h < i /\ i < j

\* The per-camera list of the selected event.
SubList(c) == path_lists[c]

\* C18 (the claim as stated): in the selected event every camera's list is
\* in non-decreasing timestamp order and consecutive files of it are at
\* most 900 seconds apart, whichever files of the other cameras exist.
C18_SubListsWithinGap ==
    selected # 0 =>
        \A c \in Cameras : \A i \in 1..(Len(SubList(c)) - 1) :
            /\ SubList(c)[i].ts <= SubList(c)[i + 1].ts
            /\ SubList(c)[i + 1].ts - SubList(c)[i].ts <= GapSeconds

\* C18 (amended): in the selected event every camera's list is in
\* non-decreasing timestamp order; the front list holds every clip of the
\* event, consecutive ones at most 900 seconds apart; two consecutive files
\* of another camera are at most 900 seconds apart for each front clip
\* from the one to the other, so more than 900 seconds only across files
\* that do not exist.
C18_SubListsOrdered ==
    selected # 0 =>
        /\ Len(SubList("front")) = Len(all_events[selected].clips)
        /\ \A c \in Cameras : \A i \in 1..(Len(SubList(c)) - 1) :
              LET a == SubList(c)[i]
                  b == SubList(c)[i + 1]
              IN /\ a.place < b.place
                 /\ a.ts <= b.ts
                 /\ b.ts - a.ts <= GapSeconds * (b.place - a.place)
                 /\ c = "front" => b.place = a.place + 1

\* C18 witness: an event of three clips 900 seconds apart is selected whose
\* middle back file does not exist, the other back files do.
C18_Witness ==
    /\ selected # 0
    /\ Len(SubList("front")) = 3 /\ Len(SubList("back")) = 2
    /\ SubList("back")[1].place = 1 /\ SubList("back")[2].place = 3
    /\ SubList("back")[2].ts - SubList("back")[1].ts > GapSeconds

RECURSIVE MinStamp(_, _)
MinStamp(clips, k) ==
    IF k = 1 THEN clips[1].ts ELSE Min(clips[k].ts, MinStamp(clips, k - 1))

\* C19: after a refresh the event list holds the groups of both folders,
\* each event's timestamp is the earliest timestamp of its clips, and the
\* list is in non-increasing order of that timestamp.
C19_NewestFirst ==
    refreshed =>
        /\ Len(all_events) = Len(GroupClips(front_files)) + Len(GroupClips(more_files))
        /\ \A k \in 1..Len(all_events) :
              all_events[k].timestamp =
                  MinStamp(all_events[k].clips, Len(all_events[k].clips))
        /\ \A k \in 1..(Len(all_events) - 1) :
              all_events[k].timestamp >= all_events[k + 1].timestamp

\* C19 witness: a refreshed list in which an event of the second folder
\* stands between two events of the first, the three of different times.
C19_Witness ==
    /\ refreshed
    /\ \E k \in 2..(Len(all_events) - 1) :
          /\ all_events[k].folder = 2
          /\ all_events[k - 1].folder = 1 /\ all_events[k + 1].folder = 1
          /\ all_events[k - 1].timestamp > all_events[k].timestamp
          /\ all_events[k].timestamp > all_events[k + 1].timestamp

\* Every clip of the track opens and has frames.
AllClipsPlayable ==
    \A i \in 1..Len(trk.video_paths) : trk.video_paths[i].ok /\ trk.video_paths[i].n > 0

\* The first global frame number of the open clip, and the first after it.
OpenFrom == trk.frame_offsets[trk.current_clip_index + 1]
OpenUpTo == OpenFrom + Frames(trk.video_paths[trk.current_clip_index + 1])

\* C20 (the claim as stated, for tracks whose clips all open with frames):
\* while the position is below the total, the open clip is the one that
\* contains the position.
C20_OpenSegmentOwnsPosition ==
    (Live /\ AllClipsPlayable /\ get_pos_frames(trk) < get_frame_count(trk)) =>
        (OpenFrom <= get_pos_frames(trk) /\ get_pos_frames(trk) < OpenUpTo)

\* C20 (amended): while the open clip's capture is opened, the position
\* lies between the open clip's first frame and the first frame after it,
\* both included; in a track whose clips all have frames it is the first
\* frame after the open clip, below the total, only right after a read
\* gave that clip's last frame: the next clip is opened by the next read.
C20_OpenSegmentBoundsPosition ==
    (Live /\ isOpened(trk)) =>
        /\ OpenFrom <= get_pos_frames(trk)
        /\ get_pos_frames(trk) <= OpenUpTo
        /\ (AllClipsPlayable /\ get_pos_frames(trk) = OpenUpTo
               /\ get_pos_frames(trk) < get_frame_count(trk)) =>
              /\ hist.op = "read" /\ hist.ret
              /\ hist.clip = trk.current_clip_index
              /\ hist.local = trk.video_paths[trk.current_clip_index + 1].n - 1

\* C20 witness: a read has just given the last frame of a clip that is not
\* the last one; the position is the next clip's first frame.
C20_Witness ==
    /\ Live /\ AllClipsPlayable /\ isOpened(trk)
    /\ hist.op = "read" /\ hist.ret
    /\ trk.current_clip_index < Len(trk.video_paths) - 1
    /\ get_pos_frames(trk) = OpenUpTo
    /\ get_pos_frames(trk) = trk.frame_offsets[trk.current_clip_index + 2]

\* Every clip of the track opens (one may report no frames).
AllClipsOpen == \A i \in 1..Len(trk.video_paths) : trk.video_paths[i].ok

\* C28 (the claim as stated): on a track whose clips all open, a read that
\* gives a frame moves the position up by exactly 1, a read that gives none
\* leaves the position as it is, and a read gives none only at the total,
\* after which the next read gives none either.
C28_ReadsCountFrames ==
    [][(Live /\ AllClipsOpen /\ hist'.op = "read") =>
          IF hist'.ret
          THEN get_pos_frames(trk') = get_pos_frames(trk) + 1
          ELSE /\ get_pos_frames(trk') = get_pos_frames(trk)
               /\ get_pos_frames(trk') = get_frame_count(trk')
               /\ ~read(trk').ret]_vars

\* C22 (the claim as stated): a seek repositions every present track; when
\* the viewer is not playing, the composite then on display holds, for every
\* present track, the frame at the sought position (the last frame for a
\* target at or past the track's total).
C22_SeekShowsSoughtFrame ==
    (last.handler = "seek" /\ Present # {}) =>
        /\ \A c \in Present : last.seek_args[c] # None
        /\ ~is_playing =>
              \A c \in Present :
                  disp.shown[c] =
                      Min(last.seek_args[c], get_frame_count(video_captures[c]) - 1)

\* The present tracks whose current capture is an open decoder.
OpenTracksNow == {c \in Present : IsOpenCapture(video_captures[c].current_capture)}

\* C23: every capture the viewer's tracks opened and did not release is
\* the current capture of a track of the event now loaded: a track holds
\* at most one, the probes of __init__ and the tracks of an earlier load
\* hold none.
C23_OneDecoderPerTrack ==
    decoders = Cardinality(OpenTracksNow)

\* C23 witness: reads have moved a track on to its second clip, whose
\* capture replaced the first clip's, next to another open track.
C23_Witness ==
    /\ decoders >= 2 /\ decoders = Cardinality(Present)
    /\ \E c \in Present :
          /\ video_captures[c].current_clip_index = 1
          /\ IsOpenCapture(video_captures[c].current_capture)

\* The frame duration "0.030 / self.playback_speed" in milliseconds.
FrameInterval == (BaseInterval * 10) \div playback_speed

\* The positions of all tracks stay as they are.
PositionsKept ==
    \A c \in Present : get_pos_frames(video_captures'[c]) = get_pos_frames(video_captures[c])

\* A scheduled play_video callback runs while playing is on.
PlayingTick == ClockTick /\ is_playing /\ Present # {}

C26_OneTickPending == pending <= 1

\* C27: once playing is on, with callbacks running and the clock moving on,
\* playing eventually goes off.
C27_PlaybackEnds == is_playing ~> ~is_playing

\* C24: every row shown stands for the event at the same index of
\* all_events: the clips loaded or exported for row i are the clips of the
\* entry whose tags are shown and edited for row i.
C24_RowsMatchEvents ==
    \A i \in 1..Len(video_files) : video_files[i] = all_events[i].clips

\* C25: an event on the card carries the tags and notes last saved for it,
\* in the metadata file and, where it is listed, in all_events.
C25_SavedTagsKept ==
    teslacam_path =>
        \A p \in disk_events :
            /\ metadata_file[p] = saved[p]
            /\ \A k \in 1..Len(all_events) :
                  get_event_key(all_events[k]) = p =>
                      /\ all_events[k].tags = saved[p].tags
                      /\ all_events[k].notes = saved[p].notes

====
